---- MODULE Spec2Model ----
(***************************************************************************)
(* tokio-fluent: the client handle (src/src/client.rs), the broadcast      *)
(* channel between the handles and the worker, and the worker that owns    *)
(* the socket (src/src/worker.rs), together with the aggregator at the     *)
(* other end of the socket.                                                *)
(*                                                                         *)
(* Chunk ids are the ordinals of the uuids drawn (1, 2, ...); 0 is a chunk *)
(* id no record carries.  Waits are milliseconds.  The f64 product of      *)
(* write_with_retry is computed exactly (initial_wait * 3^n / 2^n), which  *)
(* agrees with the f64 result for the configurations drawn here (all       *)
(* operands far below 2^53).  A u32 is kept as its two 16-bit halves, so   *)
(* that values above 2^31 can be told from small ones and `as i32` wraps   *)
(* as it does in the build.                                                *)
(***************************************************************************)
EXTENDS Integers, Sequences, FiniteSets, TLC

VARIABLES
    retry_config,   \* Worker.retry_config: [initial_wait, max, max_wait]
    handles,        \* number of live Client handles (each owns a Sender clone)
    created,        \* number of handles ever created (new + clones)
    uuids,          \* number of uuids drawn by send_with_time
    queue,          \* channel: messages retained and not yet received
    lagged,         \* channel: the receiver's next message was overwritten
    overwritten,    \* chunk ids of the records overwritten before they were received
    rxAlive,        \* channel: the Receiver (owned by the worker task) exists
    call,           \* the last client call and what it returned
    accepted,       \* chunk ids of the records whose send returned Ok, in order
    pc,             \* worker position: recv, sleep, write, read_ack, Terminated
    cur,            \* the SerializedRecord write_with_retry works on
    i,              \* write_with_retry: loop index
    wait_time,      \* write_with_retry: wait_time
    attempts,       \* calls of write made for cur
    slept,          \* waits slept for cur, in order
    buf,            \* read_ack: buf
    last_err,       \* the Error the last write returned, until the next attempt
    exit,           \* why run returned
    received,       \* chunk ids of the records recv returned, in order
    resolved,       \* how each received record ended, in order
    written,        \* chunk ids in the order their records were first written
    pending,        \* the bytes the aggregator received last and has not answered
    inbound,        \* bytes the aggregator sent that the worker has not read
    peerClosed,     \* the aggregator closed the connection
    nop_calls       \* the calls made on NopClient values and what they returned

vars == <<retry_config, handles, created, uuids, queue, lagged, overwritten, rxAlive, call,
          accepted, pc, cur, i, wait_time, attempts, slept, buf, last_err, exit,
          received, resolved, written, pending, inbound, peerClosed, nop_calls>>

clientVars == <<handles, created, uuids, queue, lagged, overwritten, rxAlive, call,
                accepted>>
workerVars == <<pc, cur, i, wait_time, attempts, slept, buf, last_err, exit,
                received, resolved>>
socketVars == <<written, pending, inbound, peerClosed>>

----------------------------------------------------------------------------
(* Bounds of the model *)

MaxSends == 2       \* send_with_time calls explored
MaxHandles == 2     \* handles ever created
MaxRetry == 3       \* largest ordinary max_retry drawn
MaxInbound == 2     \* unread bytes the aggregator may have outstanding
Capacity == 2       \* channel(1024), scaled down
MaxNopCalls == 2    \* calls explored on NopClient values

----------------------------------------------------------------------------
(* Program constants *)

RateNum == 3        \* RETRY_INCREMENT_RATE = 1.5 = RateNum / RateDen
RateDen == 2
DefaultRetryWait == 500
DefaultMaxRetryWait == 60000

Half == 65536       \* 2^16: a u32 is hi * Half + lo

----------------------------------------------------------------------------
(* Values *)

NoRecord == [record |-> <<>>, chunk |-> 0]
Terminate == [kind |-> "Terminate", tag |-> "", timestamp |-> 0, record |-> "",
              chunk |-> 0]

\* A u32 from its halves.
U32(hi, lo) == [hi |-> hi, lo |-> lo]

\* `x as i32` for a u32 x: two's complement, the top bit is the sign.
AsI32(x) ==
    IF x.hi >= Half \div 2 THEN (x.hi - Half) * Half + x.lo
    ELSE x.hi * Half + x.lo

\* The arguments explored: send_with_time(tag, record, timestamp),
\* send(tag, record), and the readings of the clock send takes.
SendWithTimeInputs == { <<"t", "{}", 1234567>> }
SendInputs == { <<"fluent.test", "{age:10}">> }
Clock == { 0 }

\* The configurations Client::new is given (it checks none of the fields).
RetryConfigs ==
    { [initial_wait |-> DefaultRetryWait, max |-> m, max_wait |-> w] :
        m \in { U32(0, 0), U32(0, 1), U32(0, MaxRetry), U32(Half - 1, Half - 1) },
        w \in { DefaultMaxRetryWait } }

RECURSIVE Pow(_, _)
Pow(b, n) == IF n = 0 THEN 1 ELSE b * Pow(b, n - 1)

\* (initial_wait as f64 * RETRY_INCREMENT_RATE.powi(n - 1)) as u64
NaturalWait(cfg, n) ==
    IF n >= 1 THEN (cfg.initial_wait * Pow(RateNum, n - 1)) \div Pow(RateDen, n - 1)
    ELSE (cfg.initial_wait * Pow(RateDen, 1 - n)) \div Pow(RateNum, 1 - n)

\* Variant: the wait is not capped.
RetryWait_NoCap(cfg, n) == NaturalWait(cfg, n)

\* The t write_with_retry computes at the end of iteration n.
RetryWait(cfg, n) ==
    IF NaturalWait(cfg, n) > cfg.max_wait THEN cfg.max_wait
    ELSE NaturalWait(cfg, n)

----------------------------------------------------------------------------
(* The channel: tokio::sync::broadcast with one Receiver *)

\* Sender::send on a channel with a live receiver: the value is stored, and
\* when `Capacity` values are already retained the oldest one is overwritten,
\* which the receiver learns as Lagged at its next recv.
\* Variant: the newest value is put in front of the retained ones.
Push_Front(ch, msg) ==
    IF Len(ch.queue) >= Capacity
    THEN [queue |-> <<msg>> \o Tail(ch.queue), lagged |-> TRUE,
          overwritten |-> IF Head(ch.queue).kind = "Record"
                          THEN ch.overwritten \cup {Head(ch.queue).chunk}
                          ELSE ch.overwritten]
    ELSE [queue |-> <<msg>> \o ch.queue, lagged |-> ch.lagged,
          overwritten |-> ch.overwritten]

Push(ch, msg) ==
    IF Len(ch.queue) >= Capacity
    THEN [queue |-> Append(Tail(ch.queue), msg), lagged |-> TRUE,
          overwritten |-> IF Head(ch.queue).kind = "Record"
                          THEN ch.overwritten \cup {Head(ch.queue).chunk}
                          ELSE ch.overwritten]
    ELSE [queue |-> Append(ch.queue, msg), lagged |-> ch.lagged,
          overwritten |-> ch.overwritten]

Chan == [queue |-> queue, lagged |-> lagged, overwritten |-> overwritten]

\* Receiver::recv when a retained value is next: the value it returns and
\* what stays retained.
RecvValue(q) == Head(q)
\* Variant: the receiver's position does not advance.
RecvRest_Stuck(q) == q
RecvRest(q) == Tail(q)

\* Sender::send: Err(SendError) when no receiver is left, nothing is stored.
SenderSend(ch, msg) == IF rxAlive THEN Push(ch, msg) ELSE ch

\* Variant: a send to a full channel is refused.
SendResult_FullIsError ==
    IF rxAlive /\ Len(queue) < Capacity THEN "Ok" ELSE "SendError"

SendResult == IF rxAlive THEN "Ok" ELSE "SendError"

----------------------------------------------------------------------------
(* The client handle *)

\* Variant: the record is stamped with a reading of the clock.
SendWithTime_Restamped(tag, map, timestamp) ==
    /\ handles > 0
    /\ uuids < MaxSends
    /\ LET record == [kind |-> "Record", tag |-> tag, timestamp |-> 0,
                      record |-> map, chunk |-> uuids + 1]
           ch == SenderSend(Chan, record)
       IN /\ uuids' = uuids + 1
          /\ queue' = ch.queue
          /\ lagged' = ch.lagged
          /\ overwritten' = ch.overwritten
          /\ call' = [op |-> "send", result |-> SendResult]
          /\ accepted' = IF rxAlive THEN Append(accepted, record.chunk) ELSE accepted
    /\ UNCHANGED <<retry_config, nop_calls, handles, created, rxAlive>>
    /\ UNCHANGED workerVars
    /\ UNCHANGED socketVars

\* Client::send_with_time(tag, record, timestamp)
SendWithTime(tag, map, timestamp) ==
    /\ handles > 0
    /\ uuids < MaxSends
    /\ LET record == [kind |-> "Record", tag |-> tag, timestamp |-> timestamp,
                      record |-> map, chunk |-> uuids + 1]
           ch == SenderSend(Chan, record)
       IN /\ uuids' = uuids + 1
          /\ queue' = ch.queue
          /\ lagged' = ch.lagged
          /\ overwritten' = ch.overwritten
          /\ call' = [op |-> "send", result |-> SendResult]
          /\ accepted' = IF rxAlive THEN Append(accepted, record.chunk) ELSE accepted
    /\ UNCHANGED <<retry_config, nop_calls, handles, created, rxAlive>>
    /\ UNCHANGED workerVars
    /\ UNCHANGED socketVars

\* FluentClient::send(tag, record): send_with_time at the clock's reading.
Send(tag, map) ==
    \E now \in Clock : SendWithTime(tag, map, now)

\* FluentClient::stop(self): sends Terminate, and the handle it consumed is
\* dropped on return, which sends Terminate once more (Drop for Client).
Stop ==
    /\ handles > 0
    /\ LET ch == SenderSend(SenderSend(Chan, Terminate), Terminate)
       IN /\ queue' = ch.queue
          /\ lagged' = ch.lagged
          /\ overwritten' = ch.overwritten
    /\ call' = [op |-> "stop", result |-> SendResult]
    /\ handles' = handles - 1
    /\ UNCHANGED <<retry_config, nop_calls, created, uuids, rxAlive, accepted>>
    /\ UNCHANGED workerVars
    /\ UNCHANGED socketVars

\* Variant: a handle is dropped and nothing is sent.
Drop_Silent ==
    /\ handles > 0
    /\ handles' = handles - 1
    /\ UNCHANGED <<retry_config, nop_calls, created, uuids, queue, lagged, overwritten, rxAlive,
                   call, accepted>>
    /\ UNCHANGED workerVars
    /\ UNCHANGED socketVars

\* Drop for Client: sends Terminate, the result is ignored.
Drop ==
    /\ handles > 0
    /\ LET ch == SenderSend(Chan, Terminate)
       IN /\ queue' = ch.queue
          /\ lagged' = ch.lagged
          /\ overwritten' = ch.overwritten
    /\ handles' = handles - 1
    /\ UNCHANGED <<retry_config, nop_calls, created, uuids, rxAlive, call, accepted>>
    /\ UNCHANGED workerVars
    /\ UNCHANGED socketVars

\* #[derive(Clone)] for Client: another handle on the same Sender.
Clone ==
    /\ handles > 0
    /\ created < MaxHandles
    /\ handles' = handles + 1
    /\ created' = created + 1
    /\ UNCHANGED <<retry_config, nop_calls, uuids, queue, lagged, overwritten, rxAlive, call,
                   accepted>>
    /\ UNCHANGED workerVars
    /\ UNCHANGED socketVars

----------------------------------------------------------------------------
(* NopClient: a unit struct with no channel and no connection *)

\* Variant: the record is handed to the channel of a Client.
NopSend_Enqueues(tag, map) ==
    /\ Len(nop_calls) < MaxNopCalls
    /\ nop_calls' = Append(nop_calls, [op |-> "send", result |-> SendResult])
    /\ LET ch == SenderSend(Chan, [kind |-> "Record", tag |-> tag, timestamp |-> 0,
                                   record |-> map, chunk |-> 0])
       IN /\ queue' = ch.queue
          /\ lagged' = ch.lagged
          /\ overwritten' = ch.overwritten
    /\ UNCHANGED <<retry_config, handles, created, uuids, rxAlive, call, accepted>>
    /\ UNCHANGED workerVars
    /\ UNCHANGED socketVars

\* <NopClient as FluentClient>::send(&self, _tag, _record): Ok(()).
NopSend(tag, map) ==
    /\ Len(nop_calls) < MaxNopCalls
    /\ nop_calls' = Append(nop_calls, [op |-> "send", result |-> "Ok"])
    /\ UNCHANGED retry_config
    /\ UNCHANGED clientVars
    /\ UNCHANGED workerVars
    /\ UNCHANGED socketVars

\* <NopClient as FluentClient>::stop(self): Ok(()).
NopStop ==
    /\ Len(nop_calls) < MaxNopCalls
    /\ nop_calls' = Append(nop_calls, [op |-> "stop", result |-> "Ok"])
    /\ UNCHANGED retry_config
    /\ UNCHANGED clientVars
    /\ UNCHANGED workerVars
    /\ UNCHANGED socketVars

----------------------------------------------------------------------------
(* The wire *)

\* Worker::encode: the record as a MessagePack array of tag, timestamp, record
\* and options, and the chunk id beside it.
Encode(r) ==
    [record |-> <<r.tag, r.timestamp, r.record, r.chunk>>, chunk |-> r.chunk]

\* Bytes of a reply, in the pieces a read may return them: the head of a
\* one-entry map with the key "ack", a string, and nil (a whole MessagePack
\* value that is no map).
AckHead == [k |-> "map1 ack", v |-> 0]
Str(c) == [k |-> "str", v |-> c]
Nil == [k |-> "nil", v |-> 0]

\* rmp_serde::from_slice::<AckResponse>(&buf): Ok only when buf starts with a
\* whole map {"ack": <string>}.
Decode(b) ==
    IF Len(b) >= 2 /\ b[1] = AckHead /\ b[2].k = "str"
    THEN [ok |-> TRUE, ack |-> b[2].v]
    ELSE [ok |-> FALSE, ack |-> 0]

\* What the aggregator may answer to a record it received.
Reply(kind, chunk) ==
    CASE kind = "ack" -> <<AckHead, Str(chunk)>>
      [] kind = "wrong" -> <<AckHead, Str(0)>>
      [] kind = "malformed" -> <<Nil>>
      [] OTHER -> <<>>

ReplyKinds == {"ack", "wrong", "malformed"}

\* std::io::ErrorKind of a failed write or read.
ConnectionLost == {"ConnectionReset", "ConnectionAborted", "BrokenPipe"}
IoErrorKinds == ConnectionLost \cup {"TimedOut"}

----------------------------------------------------------------------------
(* The worker *)

\* Variant: the Receiver outlives run.
Exit_KeepsReceiver(reason) ==
    /\ pc' = "Terminated"
    /\ exit' = reason
    /\ rxAlive' = rxAlive
    /\ buf' = <<>>
    /\ inbound' = <<>>
    /\ pending' = <<>>

\* run returns: the task ends and drops the worker, with its Receiver and its
\* stream (the bytes not read and the read buffer go with them).
Exit(reason) ==
    /\ pc' = "Terminated"
    /\ exit' = reason
    /\ rxAlive' = FALSE
    /\ buf' = <<>>
    /\ inbound' = <<>>
    /\ pending' = <<>>

\* The record is done with; run goes back to recv.
BackToRecv ==
    /\ pc' = "recv"
    /\ cur' = NoRecord
    /\ i' = 0
    /\ wait_time' = 0
    /\ attempts' = 0
    /\ slept' = <<>>
    /\ buf' = <<>>
    /\ last_err' = "none"
    /\ UNCHANGED <<exit, rxAlive, inbound, pending>>

Resolve(chunk, how) ==
    resolved' = Append(resolved, [chunk |-> chunk, how |-> how])

\* Variant: run goes on to the next message after ConnectionClosed.
RunOnError_ConnectionClosedContinues(e) ==
    CASE e = "MaxRetriesExceeded" -> Exit("MaxRetriesExceeded")
      [] OTHER -> /\ pc' = "recv"
                  /\ UNCHANGED <<exit, rxAlive, buf, inbound, pending>>

\* run's match on the Err of write_with_retry: both errors it can return
\* break the loop.
RunOnError(e) ==
    CASE e = "MaxRetriesExceeded" -> Exit("MaxRetriesExceeded")
      [] e = "ConnectionClosed" -> Exit("ConnectionClosed")
      [] OTHER -> /\ pc' = "recv"
                  /\ UNCHANGED <<exit, rxAlive, buf, inbound, pending>>

\* write_with_retry, before its first iteration: `for i in 0..max as i32`.
StartRetry(rec) ==
    /\ cur' = rec
    /\ i' = 0
    /\ wait_time' = 0
    /\ attempts' = 0
    /\ slept' = <<>>
    /\ IF 0 < AsI32(retry_config.max)
       THEN /\ pc' = "sleep"
            /\ UNCHANGED <<last_err, exit, rxAlive, resolved, buf, inbound, pending>>
       ELSE /\ last_err' = "MaxRetriesExceeded"
            /\ RunOnError("MaxRetriesExceeded")
            /\ Resolve(rec.chunk, "MaxRetriesExceeded")

\* write_with_retry, the end of an iteration whose write returned the
\* transient error e after n calls of write: the next wait is computed and
\* the loop goes on, or ends with MaxRetriesExceeded.
Transient(e, n) ==
    /\ wait_time' = RetryWait(retry_config, i)
    /\ attempts' = n
    /\ UNCHANGED <<cur, slept>>
    /\ IF i + 1 < AsI32(retry_config.max)
       THEN /\ i' = i + 1
            /\ pc' = "sleep"
            /\ last_err' = e
            /\ buf' = <<>>
            /\ UNCHANGED <<exit, rxAlive, resolved, inbound, pending>>
       ELSE /\ last_err' = "MaxRetriesExceeded"
            /\ RunOnError("MaxRetriesExceeded")
            /\ Resolve(cur.chunk, "MaxRetriesExceeded")
            /\ UNCHANGED i

\* write returned ConnectionClosed after n calls of write: write_with_retry
\* returns it at once.
Fatal(n) ==
    /\ last_err' = "ConnectionClosed"
    /\ attempts' = n
    /\ RunOnError("ConnectionClosed")
    /\ Resolve(cur.chunk, "ConnectionClosed")
    /\ UNCHANGED <<cur, i, wait_time, slept>>

\* Variant: run breaks on Err(Lagged).
RecvLagged_Breaks ==
    /\ pc = "recv"
    /\ lagged
    /\ lagged' = FALSE
    /\ Exit("Lagged")
    /\ UNCHANGED <<retry_config, nop_calls, handles, created, uuids, queue, overwritten,
                   call, accepted>>
    /\ UNCHANGED <<cur, i, wait_time, attempts, slept, last_err, received, resolved>>
    /\ UNCHANGED <<written, peerClosed>>

\* recv returned Err(Lagged): continue.
RecvLagged ==
    /\ pc = "recv"
    /\ lagged
    /\ lagged' = FALSE
    /\ UNCHANGED <<retry_config, nop_calls, handles, created, uuids, queue, overwritten, rxAlive,
                   call, accepted>>
    /\ UNCHANGED workerVars
    /\ UNCHANGED socketVars

\* Variant: run breaks when a record cannot be encoded.
EncodeFailed_Breaks(r) ==
    /\ Resolve(r.chunk, "EncodeFailed")
    /\ Exit("EncodeFailed")
    /\ UNCHANGED <<cur, i, wait_time, attempts, slept, last_err>>

\* run, when encode returned Err: warn and continue.
EncodeFailed(r) ==
    /\ Resolve(r.chunk, "EncodeFailed")
    /\ UNCHANGED <<pc, cur, i, wait_time, attempts, slept, buf, last_err,
                   exit, rxAlive, inbound, pending>>

\* recv returned Ok(Message::Record): encode, then write_with_retry.
RecvRecord ==
    /\ pc = "recv"
    /\ ~lagged
    /\ queue # <<>>
    /\ RecvValue(queue).kind = "Record"
    /\ queue' = RecvRest(queue)
    /\ received' = Append(received, RecvValue(queue).chunk)
    /\ \E encoded \in BOOLEAN :
         IF encoded
         THEN StartRetry(Encode(RecvValue(queue)))
         ELSE EncodeFailed(RecvValue(queue))
    /\ UNCHANGED <<retry_config, nop_calls, handles, created, uuids, lagged, overwritten, call,
                   accepted>>
    /\ UNCHANGED <<written, peerClosed>>

\* Variant: a Terminate is taken from the channel and run goes on.
RecvTerminate_Continues ==
    /\ pc = "recv"
    /\ ~lagged
    /\ queue # <<>>
    /\ RecvValue(queue).kind = "Terminate"
    /\ queue' = RecvRest(queue)
    /\ UNCHANGED <<retry_config, nop_calls, handles, created, uuids, lagged, overwritten, rxAlive,
                   call, accepted>>
    /\ UNCHANGED workerVars
    /\ UNCHANGED socketVars

\* recv returned Ok(Message::Terminate): break.
RecvTerminate ==
    /\ pc = "recv"
    /\ ~lagged
    /\ queue # <<>>
    /\ RecvValue(queue).kind = "Terminate"
    /\ queue' = RecvRest(queue)
    /\ Exit("Terminate")
    /\ UNCHANGED <<retry_config, nop_calls, handles, created, uuids, lagged, overwritten, call,
                   accepted>>
    /\ UNCHANGED <<cur, i, wait_time, attempts, slept, last_err, received, resolved>>
    /\ UNCHANGED <<written, peerClosed>>

\* recv returned Err(Closed): every Sender is gone and nothing is left.  Each
\* handle sends Terminate as it goes, so the worker meets a Terminate before the
\* channel can be found closed: no behaviour takes this step, and it is left
\* out of Next.
RecvClosed ==
    /\ pc = "recv"
    /\ ~lagged
    /\ queue = <<>>
    /\ handles = 0
    /\ Exit("Closed")
    /\ UNCHANGED <<retry_config, nop_calls, handles, created, uuids, queue, lagged, overwritten,
                   call, accepted>>
    /\ UNCHANGED <<cur, i, wait_time, attempts, slept, last_err, received, resolved>>
    /\ UNCHANGED <<written, peerClosed>>

\* tokio::time::sleep(wait_time) at the head of an iteration.
Sleep ==
    /\ pc = "sleep"
    /\ slept' = Append(slept, wait_time)
    /\ pc' = "write"
    /\ last_err' = "none"
    /\ UNCHANGED clientVars
    /\ UNCHANGED <<retry_config, nop_calls, cur, i, wait_time, attempts, buf, exit,
                   received, resolved>>
    /\ UNCHANGED socketVars

\* Variant: write returns once the bytes are out and run takes the next
\* message, the ack not awaited.
WriteOk_Pipelined ==
    /\ written' = IF \E k \in 1..Len(written) : written[k] = cur.chunk
                  THEN written
                  ELSE Append(written, cur.chunk)
    /\ pending' = cur.record
    /\ pc' = "recv"
    /\ cur' = NoRecord
    /\ buf' = <<>>
    /\ attempts' = attempts + 1
    /\ UNCHANGED <<i, wait_time, slept, last_err, exit, rxAlive, resolved, inbound>>

\* Variant: the record is encoded anew for every attempt, with a timestamp
\* that moves on.
WriteOk_Reencoded ==
    /\ written' = IF \E k \in 1..Len(written) : written[k] = cur.chunk
                  THEN written
                  ELSE Append(written, cur.chunk)
    /\ pending' = [cur.record EXCEPT ![2] = @ + attempts]
    /\ pc' = "read_ack"
    /\ buf' = <<>>
    /\ attempts' = attempts + 1
    /\ UNCHANGED <<cur, i, wait_time, slept, last_err, exit, rxAlive, resolved,
                   inbound>>

\* write, when write_all returned Ok: the bytes of the record are with the
\* aggregator, and write goes on to read_ack with a fresh buffer.
WriteOk ==
    /\ written' = IF \E k \in 1..Len(written) : written[k] = cur.chunk
                  THEN written
                  ELSE Append(written, cur.chunk)
    /\ pending' = cur.record
    /\ pc' = "read_ack"
    /\ buf' = <<>>
    /\ attempts' = attempts + 1
    /\ UNCHANGED <<cur, i, wait_time, slept, last_err, exit, rxAlive, resolved,
                   inbound>>

\* write: the match on the result of stream.write_all.
WriteOutcome(outcome) ==
    CASE outcome = "Ok" -> WriteOk
      [] outcome \in ConnectionLost ->
           /\ Fatal(attempts + 1)
           /\ UNCHANGED written
      [] OTHER ->
           /\ Transient("WriteFailed", attempts + 1)
           /\ UNCHANGED written

\* write: stream.write_all and the match on its result.
Write ==
    /\ pc = "write"
    /\ \E outcome \in {"Ok"} \cup IoErrorKinds : WriteOutcome(outcome)
    /\ UNCHANGED <<retry_config, nop_calls, handles, created, uuids, queue, lagged, overwritten,
                   call, accepted>>
    /\ UNCHANGED <<received, peerClosed>>

\* Variant: any ack that decodes is taken for the record's.
ReadAckDecoded_AnyAck ==
    /\ pc = "read_ack"
    /\ Decode(buf).ok
    /\ BackToRecv
    /\ Resolve(cur.chunk, "Ok")
    /\ UNCHANGED <<retry_config, nop_calls, handles, created, uuids, queue, lagged, overwritten,
                   call, accepted>>
    /\ UNCHANGED <<received, written, peerClosed>>

\* read_ack, the head of its loop when buf decodes; then write compares the
\* ack with the chunk.
ReadAckDecoded ==
    /\ pc = "read_ack"
    /\ Decode(buf).ok
    /\ IF Decode(buf).ack # cur.chunk
       THEN Transient("AckUnmatched", attempts)
       ELSE /\ BackToRecv
            /\ Resolve(cur.chunk, "Ok")
    /\ UNCHANGED <<retry_config, nop_calls, handles, created, uuids, queue, lagged, overwritten,
                   call, accepted>>
    /\ UNCHANGED <<received, written, peerClosed>>

\* read_buf returned n > 0: the bytes are appended to buf and the loop goes on.
ReadBytes(n) ==
    /\ buf' = buf \o SubSeq(inbound, 1, n)
    /\ inbound' = SubSeq(inbound, n + 1, Len(inbound))
    /\ UNCHANGED <<pc, cur, i, wait_time, attempts, slept, last_err, exit,
                   rxAlive, resolved, pending>>

\* read_buf returned 0, the end of the stream: ConnectionClosed.
ReadEof ==
    /\ inbound = <<>>
    /\ peerClosed
    /\ Fatal(attempts)

\* read_buf returned an error: ReadFailed.
ReadError == Transient("ReadFailed", attempts)

\* read_ack, the loop when buf does not decode: stream.read_buf returns some
\* of the bytes that arrived, 0 at the end of the stream, or an error.
ReadAckRead ==
    /\ pc = "read_ack"
    /\ ~Decode(buf).ok
    /\ \/ \E n \in 1..Len(inbound) : ReadBytes(n)
       \/ ReadEof
       \/ ReadError
    /\ UNCHANGED <<retry_config, nop_calls, handles, created, uuids, queue, lagged, overwritten,
                   call, accepted>>
    /\ UNCHANGED <<received, written, peerClosed>>

----------------------------------------------------------------------------
(* The aggregator *)

\* The aggregator answers the record it received last, once: options.chunk
\* is the fourth element of the array.  What the aggregator does reaches the
\* worker only through read_buf, so its steps are taken while the worker reads.
AggReply ==
    /\ pc = "read_ack"
    /\ ~peerClosed
    /\ pending # <<>>
    /\ \E kind \in ReplyKinds :
         /\ Len(inbound) + Len(Reply(kind, pending[4])) <= MaxInbound
         /\ inbound' = inbound \o Reply(kind, pending[4])
    /\ pending' = <<>>
    /\ UNCHANGED <<retry_config, nop_calls, written, peerClosed>>
    /\ UNCHANGED clientVars
    /\ UNCHANGED workerVars

\* The aggregator closes the connection.
AggClose ==
    /\ pc = "read_ack"
    /\ ~peerClosed
    /\ peerClosed' = TRUE
    /\ UNCHANGED <<retry_config, nop_calls, written, pending, inbound>>
    /\ UNCHANGED clientVars
    /\ UNCHANGED workerVars

----------------------------------------------------------------------------
(* The system *)

\* Client::new: the connection is open, the channel is empty, the worker is
\* spawned and sits in recv.
Init ==
    /\ retry_config \in RetryConfigs
    /\ handles = 1
    /\ created = 1
    /\ uuids = 0
    /\ queue = <<>>
    /\ lagged = FALSE
    /\ overwritten = {}
    /\ rxAlive = TRUE
    /\ call = [op |-> "new", result |-> "Ok"]
    /\ accepted = <<>>
    /\ pc = "recv"
    /\ cur = NoRecord
    /\ i = 0
    /\ wait_time = 0
    /\ attempts = 0
    /\ slept = <<>>
    /\ buf = <<>>
    /\ last_err = "none"
    /\ exit = "none"
    /\ received = <<>>
    /\ resolved = <<>>
    /\ written = <<>>
    /\ pending = <<>>
    /\ inbound = <<>>
    /\ peerClosed = FALSE
    /\ nop_calls = <<>>

DoSendWithTime == \E in \in SendWithTimeInputs : SendWithTime(in[1], in[2], in[3])
DoSend == \E in \in SendInputs : Send(in[1], in[2])

Next ==
    \/ DoSendWithTime
    \/ DoSend
    \/ Stop
    \/ Drop
    \/ Clone
    \/ RecvLagged
    \/ RecvRecord
    \/ RecvTerminate
    \/ Sleep
    \/ Write
    \/ ReadAckDecoded
    \/ ReadAckRead
    \/ AggReply
    \/ AggClose

Spec == Init /\ [][Next]_vars

----------------------------------------------------------------------------
(* The retry schedule over a wider range of configurations: one handle that
   only sends, the worker and the aggregator. *)

ScheduleWaits == { 0, 1, 2, 3, DefaultRetryWait - 100, DefaultRetryWait,
                   DefaultMaxRetryWait }

ScheduleConfigs ==
    { [initial_wait |-> w0, max |-> m, max_wait |-> w] :
        w0 \in ScheduleWaits,
        m \in { U32(0, n) : n \in 0..(MaxRetry + 1) } \cup { U32(Half - 1, Half - 1) },
        w \in ScheduleWaits }

InitRetry ==
    /\ retry_config \in ScheduleConfigs
    /\ handles = 1
    /\ created = 1
    /\ uuids = 0
    /\ queue = <<>>
    /\ lagged = FALSE
    /\ overwritten = {}
    /\ rxAlive = TRUE
    /\ call = [op |-> "new", result |-> "Ok"]
    /\ accepted = <<>>
    /\ pc = "recv"
    /\ cur = NoRecord
    /\ i = 0
    /\ wait_time = 0
    /\ attempts = 0
    /\ slept = <<>>
    /\ buf = <<>>
    /\ last_err = "none"
    /\ exit = "none"
    /\ received = <<>>
    /\ resolved = <<>>
    /\ written = <<>>
    /\ pending = <<>>
    /\ inbound = <<>>
    /\ peerClosed = FALSE
    /\ nop_calls = <<>>

NextRetry ==
    \/ DoSendWithTime
    \/ RecvRecord
    \/ Sleep
    \/ Write
    \/ ReadAckDecoded
    \/ ReadAckRead
    \/ AggReply

SpecRetry == InitRetry /\ [][NextRetry]_vars

----------------------------------------------------------------------------
(* NopClient values used beside a Client that only sends, its worker and the
   aggregator. *)

DoNopSend == \E in \in SendInputs : NopSend(in[1], in[2])

NextNop ==
    \/ DoNopSend
    \/ NopStop
    \/ DoSendWithTime
    \/ RecvRecord
    \/ Sleep
    \/ Write
    \/ ReadAckDecoded
    \/ ReadAckRead
    \/ AggReply

SpecNop == Init /\ [][NextNop]_vars

----------------------------------------------------------------------------
(* The system under fair scheduling of the worker task: the runtime polls the
   task whenever it can go on.  recv returns when a message is retained, sleep
   when its time is over, write_all when the socket has taken or refused the
   bytes, and read_buf when bytes have arrived or the stream has ended; while
   nothing arrives on an open stream read_buf stays pending, and nothing
   obliges the aggregator to reply or to close. *)

WorkerStep ==
    \/ RecvLagged
    \/ RecvRecord
    \/ RecvTerminate
    \/ Sleep
    \/ Write
    \/ ReadAckDecoded
    \/ (ReadAckRead /\ (inbound # <<>> \/ peerClosed))

SpecFair == Init /\ [][Next]_vars /\ WF_vars(WorkerStep)

----------------------------------------------------------------------------
(* Helpers of the properties *)

Min(a, b) == IF a < b THEN a ELSE b

RECURSIVE RecordChunks(_)
\* The chunk ids of the Record messages of q, in order.
RecordChunks(q) ==
    IF q = <<>> THEN <<>>
    ELSE IF Head(q).kind = "Record"
         THEN <<Head(q).chunk>> \o RecordChunks(Tail(q))
         ELSE RecordChunks(Tail(q))

RECURSIVE Without(_, _)
\* The sequence s without the elements of the set S.
Without(s, S) ==
    IF s = <<>> THEN <<>>
    ELSE IF Head(s) \in S THEN Without(Tail(s), S)
         ELSE <<Head(s)>> \o Without(Tail(s), S)

\* The position of chunk c in the sequence s (0 when absent).
Pos(s, c) == IF \E k \in 1..Len(s) : s[k] = c
             THEN CHOOSE k \in 1..Len(s) : s[k] = c
             ELSE 0

Resolved(c) == \E k \in 1..Len(resolved) : resolved[k].chunk = c

Exhausted == \E k \in 1..Len(resolved) : resolved[k].how = "MaxRetriesExceeded"

\* The wait before attempt n as the retry policy is documented.
ClaimedWait(cfg, n) ==
    IF n = 0 THEN 0
    ELSE Min(cfg.max_wait,
             (cfg.initial_wait * Pow(RateNum, n - 1)) \div Pow(RateDen, n - 1))

\* A step of a client's send or send_with_time.
SendStep == DoSend \/ DoSendWithTime

----------------------------------------------------------------------------
(* The claims *)

\* C1: when write_with_retry exhausts max_attempts for a record, the worker
\* discards only that record and stays alive (it ends later only for a
\* Terminate, a closed channel or a lost connection).
C1_WorkerSurvivesExhaustion ==
    (Exhausted /\ attempts >= 1)
        => /\ exit # "MaxRetriesExceeded"
           /\ (rxAlive \/ exit \in {"Terminate", "Closed", "ConnectionClosed"})

\* C2: a record is resolved as written only by a step of read_ack that has
\* decoded, from bytes read off the socket, an ack equal to the record's chunk
\* id; a decoded ack with another chunk id ends the attempt with AckUnmatched
\* and, while attempts remain, the same record goes to its next attempt.
C2_AckGating ==
    [][ /\ ( /\ Len(resolved') > Len(resolved)
             /\ resolved'[Len(resolved')].how = "Ok" )
           => /\ pc = "read_ack"
              /\ Decode(buf).ok
              /\ Decode(buf).ack = cur.chunk
              /\ resolved'[Len(resolved')].chunk = cur.chunk
        /\ ( /\ pc = "read_ack"
             /\ Decode(buf).ok
             /\ Decode(buf).ack # cur.chunk
             /\ pc' # pc )
           => IF i + 1 < AsI32(retry_config.max)
              THEN /\ last_err' = "AckUnmatched"
                   /\ pc' = "sleep"
                   /\ cur' = cur
                   /\ i' = i + 1
              ELSE pc' = "Terminated"
      ]_vars

\* C2 witness: an ack with another chunk id was read for a written record
\* and the record waits for its next attempt.
C2_Witness ==
    /\ pc = "sleep"
    /\ last_err = "AckUnmatched"
    /\ i = 1
    /\ Pos(written, cur.chunk) > 0

\* C3 as claimed: while the worker lives, the records whose send returned Ok
\* are exactly the records received followed by those still in the channel:
\* none skipped, none twice, however many are pending.
C3_EveryAcceptedReceivedOnce ==
    rxAlive => received \o RecordChunks(queue) = accepted

\* C3 as amended: the same, for the accepted records that were not
\* overwritten in the channel (a send made when Capacity messages are
\* retained overwrites the oldest of them).
C3_AcceptedReceivedOnceUnlessOverwritten ==
    rxAlive => received \o RecordChunks(queue) = Without(accepted, overwritten)

\* C3 witness: a record was overwritten, and the worker has received a later
\* record.
C3_Witness ==
    /\ rxAlive
    /\ overwritten # {}
    /\ received # <<>>
    /\ \A c \in overwritten : c < received[Len(received)]

\* C4: once the worker has exited, every send, send_with_time and stop
\* returns SendError and nothing changes in the channel or is received,
\* written or resolved any more; and a send or stop returns SendError only
\* then.
C4_SendFailsIffWorkerExited ==
    [][ /\ (SendStep \/ Stop)
           => ((pc = "Terminated") <=> (call'.result = "SendError"))
        /\ (pc = "Terminated")
           => /\ pc' = "Terminated"
              /\ UNCHANGED <<queue, lagged, accepted, received, resolved, written>>
      ]_vars

\* C4 witness: the worker exited on a lost connection after a record was
\* accepted, and a later send returned SendError.
C4_Witness ==
    /\ pc = "Terminated"
    /\ exit = "ConnectionClosed"
    /\ accepted # <<>>
    /\ call = [op |-> "send", result |-> "SendError"]

\* C5: while the worker lives a send is never blocked (it is enabled
\* whatever the worker does and however many messages are pending), returns
\* Ok, and touches neither the socket nor the worker.
C5_SendNeverBlocks ==
    /\ []( (handles > 0 /\ uuids < MaxSends)
           => (ENABLED DoSend /\ ENABLED DoSendWithTime) )
    /\ [][ SendStep
           => /\ rxAlive => /\ call'.result = "Ok"
                            /\ Len(accepted') = Len(accepted) + 1
              /\ UNCHANGED socketVars
              /\ UNCHANGED workerVars
         ]_vars

\* C5 witness: a send returned Ok while the worker was blocked in read_ack
\* and the channel was full.
C5_Witness ==
    /\ call = [op |-> "send", result |-> "Ok"]
    /\ pc = "read_ack"
    /\ Len(queue) = Capacity
    /\ queue[Len(queue)].kind = "Record"

\* C6: records are first written to the socket in the order of their sends.
C6_Fifo ==
    \A a, b \in 1..Len(written) :
        a < b => /\ Pos(accepted, written[a]) > 0
                 /\ Pos(accepted, written[a]) < Pos(accepted, written[b])

\* C6 witness: two records have been written.
C6_Witness == Len(written) >= 2

\* C7: a record that has been written and is not resolved is the one the
\* worker is working on: no other record's bytes are written before it is
\* resolved.
C7_OneInFlight ==
    \A k \in 1..Len(written) :
        \/ Resolved(written[k])
        \/ /\ written[k] = cur.chunk
           /\ pc \in {"sleep", "write", "read_ack"}

\* C7 witness: a second record is in flight, the first one resolved.
C7_Witness ==
    /\ Len(written) >= 2
    /\ pc = "read_ack"
    /\ ~Resolved(cur.chunk)

\* C8: the worker never makes more than max_attempts calls of write for a
\* record, and a record dropped for MaxRetriesExceeded got exactly
\* max_attempts of them.
C8_ExactlyMaxAttempts ==
    /\ (retry_config.max.hi = 0) => attempts <= retry_config.max.lo
    /\ Exhausted => retry_config.max = U32(0, attempts)

\* C9: the wait slept before attempt n is 0 for n = 0 and
\* min(max_wait, floor(initial_wait * 1.5^(n-1))) for n >= 1: 0, 500, 750
\* with the defaults and max_attempts = 3.
C9_WaitSchedule ==
    \A k \in 1..Len(slept) : slept[k] = ClaimedWait(retry_config, k - 1)

C11_FailsWhenWaitExceedsCap ==
    (pc = "sleep" /\ i >= 1)
        => NaturalWait(retry_config, i - 1) <= retry_config.max_wait

\* A step that ends an attempt with ConnectionClosed ends the worker: the
\* record is resolved ConnectionClosed with no further attempt, and nothing
\* more is received or written.
ConnectionClosedIsTerminal ==
    /\ pc' = "Terminated"
    /\ exit' = "ConnectionClosed"
    /\ rxAlive' = FALSE
    /\ resolved' = Append(resolved, [chunk |-> cur.chunk, how |-> "ConnectionClosed"])
    /\ UNCHANGED <<received, written, queue>>

\* C12: a write that fails with ConnectionReset, ConnectionAborted or
\* BrokenPipe, and an ack read that meets the end of the stream before a
\* whole ack, yield ConnectionClosed and the worker exits at once, with no
\* further attempt and no later message processed; any other write error is
\* WriteFailed and the record goes to its next attempt while attempts remain.
C12_ConnectionLossIsTerminal ==
    [][ /\ \A k \in ConnectionLost :
              (pc = "write" /\ WriteOutcome(k))
                  => /\ ConnectionClosedIsTerminal
                     /\ attempts' = attempts + 1
        /\ (pc = "read_ack" /\ ~Decode(buf).ok /\ ReadEof)
              => /\ ConnectionClosedIsTerminal
                 /\ attempts' = attempts
        /\ \A k \in IoErrorKinds \ ConnectionLost :
              (pc = "write" /\ WriteOutcome(k))
                  => /\ exit' # "ConnectionClosed"
                     /\ UNCHANGED written
                     /\ IF i + 1 < AsI32(retry_config.max)
                        THEN /\ last_err' = "WriteFailed"
                             /\ pc' = "sleep"
                             /\ cur' = cur
                             /\ i' = i + 1
                        ELSE last_err' = "MaxRetriesExceeded"
        /\ (exit = "ConnectionClosed")
              => UNCHANGED <<pc, received, written, resolved, attempts, slept>>
      ]_vars

\* C12 witness: the first attempt of a record was written, the stream ended
\* before its ack, and the worker exited with attempts left and a record
\* still in the channel.
C12_Witness ==
    /\ pc = "Terminated"
    /\ exit = "ConnectionClosed"
    /\ peerClosed
    /\ attempts = 1
    /\ Pos(written, cur.chunk) > 0
    /\ retry_config.max = U32(0, MaxRetry)
    /\ RecordChunks(queue) # <<>>

\* C13: the worker exits on the first Terminate it receives, which it does
\* only while idle in recv; after that, further Terminate messages (of stop
\* and the drop that follows it, or of other handles) and everything else
\* sent have no effect: nothing is stored, received, resolved or written, and
\* the worker stays as it ended.
C13_FirstTerminateEndsWorker ==
    [][ /\ ( /\ queue # <<>>
             /\ Head(queue).kind = "Terminate"
             /\ queue' = Tail(queue) )
           => /\ pc = "recv"
              /\ pc' = "Terminated"
              /\ exit' = "Terminate"
              /\ rxAlive' = FALSE
              /\ UNCHANGED <<received, resolved, written>>
        /\ (exit' = "Terminate" /\ exit # "Terminate") => pc = "recv"
        /\ (exit = "Terminate")
           => /\ UNCHANGED <<queue, lagged, overwritten, rxAlive, accepted>>
              /\ UNCHANGED workerVars
              /\ UNCHANGED socketVars
      ]_vars

\* C13 witness: stop put two Terminate messages in the channel, the worker
\* exited on the first, the second stays unobserved, and a send made through
\* another handle afterwards was refused.
C13_Witness ==
    /\ pc = "Terminated"
    /\ exit = "Terminate"
    /\ queue = <<Terminate>>
    /\ handles >= 1
    /\ call = [op |-> "send", result |-> "SendError"]

\* n Terminate messages.
Terminates(n) == [k \in 1..n |-> Terminate]

\* C14: a handle goes away only by stop or by being dropped (the steps that
\* lower the count of handles), and either way, while the worker lives, what
\* is enqueued is Terminate and no Record: the channel then holds the earlier
\* messages it still retains followed by Terminate, so that the receiver
\* obtains Terminate next after the earlier records.  stop reports the result
\* of its send; a drop ignores it.
C14_StopAndDropEnqueueTerminate ==
    [][ (handles' < handles)
           => /\ handles' = handles - 1
              /\ UNCHANGED <<accepted, uuids>>
              /\ UNCHANGED workerVars
              /\ UNCHANGED socketVars
              /\ IF rxAlive
                 THEN /\ queue' # <<>>
                      /\ queue'[Len(queue')] = Terminate
                      /\ \E k \in 0..Len(queue) : \E n \in 1..2 :
                            queue' = SubSeq(queue, k + 1, Len(queue)) \o Terminates(n)
                      /\ call' # call => call' = [op |-> "stop", result |-> "Ok"]
                 ELSE /\ UNCHANGED <<queue, lagged>>
                      /\ call' # call => call' = [op |-> "stop", result |-> "SendError"]
      ]_vars

\* C14 witness: the only handle was dropped without stop after a send, and
\* the channel holds the record followed by Terminate.
C14_Witness ==
    /\ handles = 0
    /\ created = 1
    /\ call = [op |-> "send", result |-> "Ok"]
    /\ rxAlive
    /\ Len(queue) = 2
    /\ queue[1].kind = "Record"
    /\ queue[2] = Terminate

\* C15 as claimed: all handles feed the one channel, and a handle dropped
\* while another handle is alive enqueues nothing (destruction enqueues
\* Terminate only for the last handle), so the worker is not stopped by it.
C15_OnlyLastDropTerminates ==
    [][ (handles' < handles /\ handles' >= 1 /\ call' = call)
           => UNCHANGED <<queue, lagged>>
      ]_vars

\* C16 as claimed: once the handle is gone (dropped, or consumed by stop),
\* the worker, fairly scheduled, eventually reaches Terminated, whatever was
\* pending and whatever the aggregator does.
C16_TerminatesAfterDropOrStop ==
    (handles = 0) ~> (pc = "Terminated")

\* The chunk ids in use: of the messages in the channel and of the records
\* accepted, overwritten or received so far.
ChunksInUse ==
    {queue[k].chunk : k \in 1..Len(queue)} \cup {accepted[k] : k \in 1..Len(accepted)}
        \cup {received[k] : k \in 1..Len(received)} \cup overwritten

\* C17: send_with_time(tag, map, timestamp), the worker alive, enqueues one
\* message: a Record with that tag, map and timestamp and a chunk id no other
\* record has; the messages retained before it stay in their order, no
\* Terminate is added, no handle goes away and the worker and the socket are
\* not touched.
C17_SendWithTimeEnqueuesOneRecord ==
    [][ \A in \in SendWithTimeInputs :
          (SendWithTime(in[1], in[2], in[3]) /\ rxAlive)
             => /\ queue' # <<>>
                /\ LET m == queue'[Len(queue')]
                   IN /\ m.kind = "Record"
                      /\ m.tag = in[1]
                      /\ m.record = in[2]
                      /\ m.timestamp = in[3]
                      /\ m.chunk \notin ChunksInUse
                      /\ m.chunk # Terminate.chunk
                /\ \E k \in 0..Len(queue) :
                      SubSeq(queue', 1, Len(queue') - 1) = SubSeq(queue, k + 1, Len(queue))
                /\ UNCHANGED <<handles, created>>
                /\ UNCHANGED workerVars
                /\ UNCHANGED socketVars
      ]_vars

\* C17 witness: the second send_with_time("t", {}, 1234567) was accepted and
\* its record is the last message of the channel, behind the first one.
C17_Witness ==
    /\ call = [op |-> "send", result |-> "Ok"]
    /\ Len(queue) = 2
    /\ queue[1].kind = "Record"
    /\ queue[2] = [kind |-> "Record", tag |-> "t", timestamp |-> 1234567,
                   record |-> "{}", chunk |-> 2]

\* C18: every send and stop on a NopClient returns Ok, whatever the calls
\* before it, and has no other effect: no message is enqueued, no handle,
\* worker or connection is created or touched, nothing is written.
C18_NopClientHasNoEffect ==
    /\ [](\A k \in 1..Len(nop_calls) : nop_calls[k].result = "Ok")
    /\ [][ (nop_calls' # nop_calls)
             => /\ Len(nop_calls') = Len(nop_calls) + 1
                /\ SubSeq(nop_calls', 1, Len(nop_calls)) = nop_calls
                /\ UNCHANGED retry_config
                /\ UNCHANGED clientVars
                /\ UNCHANGED workerVars
                /\ UNCHANGED socketVars
         ]_vars

\* C18 witness: a stop and then a send were made on NopClient values while a
\* record of the Client was in flight.
C18_Witness ==
    /\ Len(nop_calls) = 2
    /\ nop_calls[1].op = "stop"
    /\ nop_calls[2].op = "send"
    /\ pc = "read_ack"
    /\ pending # <<>>

\* The worker's position in the documented state machine.
Idle == pc = "recv"
Retrying == pc \in {"sleep", "write", "read_ack"}

\* C19 as claimed: the worker reaches Terminated only from Idle, on Terminate
\* or a closed channel, or from Retrying, on ConnectionClosed; Retrying(i)
\* goes to Retrying(i + 1) only after a transient error with
\* i + 1 < max_attempts, for the same record; and Terminated is final: no
\* receive, sleep, write or read follows it.  (Stated for max_attempts >= 1.)
C19_DocumentedTransitionsOnly ==
    [][ /\ (pc' = "Terminated" /\ pc # "Terminated" /\ AsI32(retry_config.max) >= 1)
           => \/ (Idle /\ exit' \in {"Terminate", "Closed"})
              \/ (Retrying /\ exit' = "ConnectionClosed")
        /\ (i' # i /\ i' # 0)
           => /\ Retrying
              /\ pc' = "sleep"
              /\ i' = i + 1
              /\ i + 1 < AsI32(retry_config.max)
              /\ last_err' \in {"WriteFailed", "ReadFailed", "AckUnmatched"}
              /\ cur' = cur
        /\ (pc = "Terminated")
           => /\ UNCHANGED workerVars
              /\ UNCHANGED socketVars
              /\ UNCHANGED <<queue, lagged>>
      ]_vars

\* C20 as claimed: the worker, fairly scheduled, always eventually leaves
\* Retrying for Idle or Terminated, so that every record it took is resolved,
\* also when the aggregator takes the bytes and then neither replies nor
\* closes the connection.
C20_RetryingEventuallyEnds ==
    Retrying ~> (Idle \/ pc = "Terminated")

\* The bytes b hold a whole MessagePack value: nil is whole by itself, a
\* one-entry map is whole once its value has followed its head.
Complete(b) == b # <<>> /\ (b[1] = Nil \/ Len(b) >= 2)

\* The bytes b are a whole reply that is not an ack map.
Malformed(b) == Complete(b) /\ ~Decode(b).ok

\* C21 as claimed: in read_ack, bytes that do not decode because they are
\* incomplete make the worker read more, whereas a whole reply that is not an
\* ack map ends the attempt with an error: the worker never goes on to read
\* more bytes with such a reply in buf.
C21_MalformedAckEndsAttempt ==
    (pc = "read_ack" /\ Malformed(buf)) => ~ENABLED ReadAckRead

\* C22: when the encoding of a record fails, the record is discarded with no
\* byte of it written, and the worker goes on: it stays alive in recv, ready
\* for the next message, and the socket is as it was.
C22_EncodeFailureDiscardsRecord ==
    /\ [](\A k \in 1..Len(resolved) :
            resolved[k].how = "EncodeFailed" => Pos(written, resolved[k].chunk) = 0)
    /\ [][ ( /\ Len(resolved') > Len(resolved)
             /\ resolved'[Len(resolved')].how = "EncodeFailed" )
           => /\ pc = "recv"
              /\ pc' = "recv"
              /\ rxAlive'
              /\ exit' = "none"
              /\ queue # <<>>
              /\ resolved'[Len(resolved')].chunk = Head(queue).chunk
              /\ queue' = Tail(queue)
              /\ UNCHANGED <<cur, attempts, slept, last_err>>
              /\ UNCHANGED socketVars
         ]_vars

\* C22 witness: the first record could not be encoded, and the worker has
\* written the record sent after it.
C22_Witness ==
    /\ Len(resolved) >= 1
    /\ resolved[1].how = "EncodeFailed"
    /\ written # <<>>
    /\ Pos(received, resolved[1].chunk) < Pos(received, written[1])

\* C23 as claimed: every configuration Client::new accepts has
\* initial_wait <= max_wait and max_attempts >= 1, so that a record that was
\* encoded gets at least one write, the first one after a wait of 0.
C23_ConfigInvariantsHold ==
    /\ slept # <<>> => slept[1] = 0
    /\ \A k \in 1..Len(resolved) :
          resolved[k].how # "EncodeFailed"
             => /\ retry_config.initial_wait <= retry_config.max_wait
                /\ retry_config.max # U32(0, 0)
                /\ (resolved[k].how \in {"MaxRetriesExceeded", "ConnectionClosed"}
                      => attempts >= 1)
                /\ (resolved[k].how = "Ok" => Pos(written, resolved[k].chunk) > 0)

\* C24: the record is encoded once, when it is received: all the attempts
\* made for it write the same bytes, which carry the chunk id and the
\* timestamp the record was sent with, and every ack is compared with that
\* same chunk id.
C24_SameBytesEveryAttempt ==
    /\ [](Retrying
            => /\ received # <<>>
               /\ cur.chunk = received[Len(received)]
               /\ cur.record[4] = cur.chunk)
    /\ [][ /\ (Retrying /\ pc' \in {"sleep", "write", "read_ack"}) => cur' = cur
           /\ (pc = "write" /\ pc' = "read_ack") => pending' = cur.record
           /\ (pc = "read_ack" /\ Decode(buf).ok /\ pc' = "recv")
                 => Decode(buf).ack = received[Len(received)]
         ]_vars

\* C24 witness: the second attempt of the record sent with the timestamp
\* 1234567 has written the bytes of the first.
C24_Witness ==
    /\ pc = "read_ack"
    /\ attempts = 2
    /\ i = 1
    /\ pending = cur.record
    /\ cur.record[2] = 1234567

\* C25: the channel retains at most Capacity (1024 in the build) messages not
\* yet received.  A send made while that many are retained returns Ok and
\* displaces the oldest of them; the worker, on observing the lag, neither
\* terminates nor fails and goes on from the oldest message retained; and the
\* records it receives are an order-preserving subsequence of those sent.
C25_LagIsTolerated ==
    /\ [](Len(queue) <= Capacity)
    /\ [](\A a, b \in 1..Len(received) :
            /\ Pos(accepted, received[a]) > 0
            /\ (a < b => Pos(accepted, received[a]) < Pos(accepted, received[b])))
    /\ [][ /\ (uuids' # uuids /\ rxAlive /\ Len(queue) = Capacity)
              => /\ call' = [op |-> "send", result |-> "Ok"]
                 /\ Len(accepted') = Len(accepted) + 1
                 /\ Len(queue') = Capacity
                 /\ SubSeq(queue', 1, Capacity - 1) = Tail(queue)
                 /\ queue'[Capacity].chunk = accepted'[Len(accepted')]
                 /\ lagged'
           /\ (lagged /\ ~lagged')
              => /\ pc = "recv"
                 /\ pc' = "recv"
                 /\ rxAlive'
                 /\ exit' = "none"
                 /\ UNCHANGED <<queue, received, resolved, last_err>>
                 /\ UNCHANGED socketVars
           /\ (pc = "recv" /\ received' # received)
              => /\ ~lagged
                 /\ received' = Append(received, Head(queue).chunk)
         ]_vars

\* C25 witness: a record was displaced from the full channel, the worker has
\* observed the lag, and it is writing a record sent after the displaced one.
C25_Witness ==
    /\ overwritten # {}
    /\ ~lagged
    /\ rxAlive
    /\ pc = "read_ack"
    /\ \A c \in overwritten : c < cur.chunk
    /\ Pos(received, cur.chunk) > 0

====
